---- MODULE Spec2Model ----
(***************************************************************************)
(* Model of xgi/readwrite/xgi_data.py: load_xgi_data, download_xgi_data    *)
(* and _request_from_xgi_data, together with the two resources they share: *)
(* the remote xgi-data repository (index.json and the dataset files) and   *)
(* the local directory holding the <dataset>.json copies.                  *)
(*                                                                         *)
(* A caller runs one call at a time; every statement of the code that      *)
(* touches a shared resource (os.path.exists, open, the two requests.get,  *)
(* the writes reaching the file, close) is one step, so that the remote    *)
(* may change between two steps and, under SpecConc, a second caller may   *)
(* run between them.  The local directory is a POSIX, case-sensitive one.  *)
(***************************************************************************)
EXTENDS Integers, Sequences, FiniteSets, TLC

\* ------------------------------------------------------------------ bounds
MaxLen == 1       \* longest dataset (a JSON list) the remote serves
MaxCalls == 2     \* calls one caller makes
MaxEnv == 1       \* changes of the remote repository during a run

\* ------------------------------------------------------------ dataset names
\* Characters of a dataset name.  "dotless_i" stands for U+0131, a lowercase
\* letter whose uppercase is the ASCII "I"; the others are ASCII letters.
\* str.lower() on one character.
LowerChar(c) ==
    CASE c = "A" -> "a"
      [] c = "I" -> "i"
      [] OTHER -> c

\* Variant: the name is used as passed.
IdentityName(s) == s

\* dataset.lower()
Lower(s) == [k \in 1..Len(s) |-> LowerChar(s[k])]

\* The names callers pass.
DatasetNames ==
    { <<"a", "i">>, <<"A", "I">>, <<"A", "i">>, <<"a", "dotless_i">> }

\* The keys index.json may hold: the xgi-data index keeps its keys lowercase.
IndexKeys == { n \in DatasetNames : Lower(n) = n }

Urls == {"u1", "u2"}

\* ------------------------------------------------------------------- JSON
Vals == {0, 1}

RECURSIVE SeqsUpTo(_)
SeqsUpTo(n) ==
    IF n = 0 THEN { <<>> }
    ELSE LET S == SeqsUpTo(n - 1)
         IN  S \cup { Append(s, v) : s \in { t \in S : Len(t) = n - 1 }, v \in Vals }

\* The datasets the remote may serve.
Data == SeqsUpTo(MaxLen)

NumTok(v) == IF v = 0 THEN "0" ELSE "1"
TokNum(t) == IF t = "0" THEN 0 ELSE 1
NumToks == {"0", "1"}

RECURSIVE DumpItems(_)
DumpItems(d) ==
    IF d = <<>> THEN <<>>
    ELSE IF Len(d) = 1 THEN << NumTok(d[1]) >>
    ELSE << NumTok(d[1]), ", " >> \o DumpItems(Tail(d))

\* json.dump(jsondata, jsonfile): the text written, as a sequence of tokens.
json_dump(d) == <<"[">> \o DumpItems(d) \o <<"]">>

JsonFail == [ok |-> FALSE, val |-> <<>>]

RECURSIVE ParseItems(_)
ParseItems(t) ==
    IF Len(t) < 2 \/ t[1] \notin NumToks THEN JsonFail
    ELSE IF t[2] = "]"
         THEN IF Len(t) = 2 THEN [ok |-> TRUE, val |-> << TokNum(t[1]) >>]
              ELSE JsonFail
    ELSE IF t[2] = ", "
         THEN LET r == ParseItems(SubSeq(t, 3, Len(t)))
              IN  IF r.ok THEN [ok |-> TRUE, val |-> << TokNum(t[1]) >> \o r.val]
                  ELSE JsonFail
    ELSE JsonFail

\* json.load(open(cfp, 'r')): the value parsed, or a JSONDecodeError.
json_load(t) ==
    IF Len(t) < 2 \/ t[1] # "[" THEN JsonFail
    ELSE IF t = <<"[", "]">> THEN [ok |-> TRUE, val |-> <<>>]
    ELSE ParseItems(SubSeq(t, 2, Len(t)))

\* convert.dict_to_hypergraph(data, ...): the external converter.
dict_to_hypergraph(d) == [hyperedges |-> d]

\* ------------------------------------------------------------- file system
\* Variant: the file name is built from the lowercased name.
CachePathLowered(dataset) == Lower(dataset) \o <<".json">>

\* os.path.join(path, dataset + '.json'), for the one directory of the model.
CachePath(dataset) == dataset \o <<".json">>

Max(a, b) == IF a >= b THEN a ELSE b

\* write(2) of toks at offset off of a file holding content; a gap is zeros.
WriteAt(content, off, toks) ==
    IF toks = <<>> THEN content
    ELSE
    [k \in 1..Max(Len(content), off + Len(toks)) |->
        IF k > off /\ k <= off + Len(toks) THEN toks[k - off]
        ELSE IF k <= Len(content) THEN content[k]
        ELSE "NUL"]

\* Variant: the file is opened without truncation ('r+' for 'w').
OpenKeep(f, path) ==
    [q \in DOMAIN f \cup {path} |-> IF q \in DOMAIN f THEN f[q] ELSE <<>>]

\* open(path, 'w'): creates the file, or truncates it to length zero.
OpenW(f, path) ==
    [q \in DOMAIN f \cup {path} |-> IF q = path THEN <<>> ELSE f[q]]

\* Variant: the file is opened for appending, every write lands at its end.
FileAppend(f, path, off, toks) ==
    [q \in DOMAIN f \cup {path} |->
        IF q = path
        THEN (IF path \in DOMAIN f THEN f[path] ELSE <<>>) \o toks
        ELSE f[q]]

\* The file system after toks are written at off to the open file path.
FileWrite(f, path, off, toks) ==
    [q \in DOMAIN f \cup {path} |->
        IF q = path
        THEN WriteAt(IF path \in DOMAIN f THEN f[path] ELSE <<>>, off, toks)
        ELSE f[q]]

\* Variant: the test is made on the name without its '.json' suffix.
ExistsWithoutSuffix(f, path) == SubSeq(path, 1, Len(path) - 1) \in DOMAIN f

\* os.path.exists(cfp)
Exists(f, path) == path \in DOMAIN f

PutEntry(f, k, v) == [q \in DOMAIN f \cup {k} |-> IF q = k THEN v ELSE f[q]]
DropEntry(f, k) == [q \in DOMAIN f \ {k} |-> f[q]]

\* ------------------------------------------------------------------- state
Callers == {1}          \* Spec: one caller, the calls follow one another
ConcCallers == {1, 2}   \* SpecConc: two callers with no coordination

VARIABLES
    index,     \* remote index.json: key -> url of the dataset
    remote,    \* remote dataset files: url -> dataset
    fs,        \* local directory: path -> tokens of the file (existing files only)
    call,      \* per caller: the call in progress, or the last one completed
    ncalls,    \* per caller: calls started
    nenv,      \* changes of the remote so far
    fetched    \* dataset name -> the data its last completed download fetched

vars == << index, remote, fs, call, ncalls, nenv, fetched >>

NoMap == << >>

\* The locals of a call, and what it has done so far.
NewCall(op, dataset, read) ==
    [ pc |-> "idle", op |-> op, dataset |-> dataset, read |-> read,
      hit |-> FALSE,       \* os.path.exists(cfp) was true
      idx |-> NoMap,       \* index, as fetched
      looked |-> FALSE,    \* the index arrived and key was looked up
      key |-> << >>, url |-> "", data |-> << >>,
      off |-> 0,           \* tokens of the dump that reached the file
      gets |-> << >>,      \* the requests.get calls made, in order
      warns |-> 0,         \* warn() calls
      printed |-> << >>,   \* the names print() listed
      passed |-> << >>,    \* the value handed to dict_to_hypergraph
      result |-> << >>,    \* the value returned
      old |-> << >>,       \* << what the file held >> when open() found it
      outcome |-> "none" ] \* "ok", or the exception raised

Init ==
    /\ index = [k \in { <<"a", "i">> } |-> "u1"]
    /\ remote = [u \in Urls |-> IF u = "u1" THEN <<0>> ELSE <<>>]
    /\ fs = NoMap
    /\ call = [p \in ConcCallers |-> NewCall("none", << >>, FALSE)]
    /\ ncalls = [p \in ConcCallers |-> 0]
    /\ nenv = 0
    /\ fetched = NoMap

CallsMade == ncalls[1] + ncalls[2]

Free(p) == call[p].pc \in {"idle", "done"} /\ CallsMade < MaxCalls

Finish(c, outcome) == [c EXCEPT !.pc = "done", !.outcome = outcome]

\* Variant: the fallback to the remote is silent.
load_xgi_data_silent(p, dataset, read) ==
    /\ Free(p)
    /\ LET c == NewCall("load", dataset, read)
           cfp == CachePath(dataset)
       IN  call' = [call EXCEPT ![p] =
             IF read /\ Exists(fs, cfp)
             THEN [c EXCEPT !.pc = "load_read", !.hit = TRUE]
             ELSE [c EXCEPT !.pc = "req_index"]]
    /\ ncalls' = [ncalls EXCEPT ![p] = @ + 1]
    /\ UNCHANGED << index, remote, fs, nenv, fetched >>

\* ----------------------------------------------------------- load_xgi_data
\* Lines 43-51: the branch on read and on os.path.exists(cfp).
load_xgi_data(p, dataset, read) ==
    /\ Free(p)
    /\ LET c == NewCall("load", dataset, read)
           cfp == CachePath(dataset)
       IN  call' = [call EXCEPT ![p] =
             IF read /\ Exists(fs, cfp)
             THEN [c EXCEPT !.pc = "load_read", !.hit = TRUE]
             ELSE IF read
             THEN [c EXCEPT !.pc = "req_index", !.warns = 1]
             ELSE [c EXCEPT !.pc = "req_index"]]
    /\ ncalls' = [ncalls EXCEPT ![p] = @ + 1]
    /\ UNCHANGED << index, remote, fs, nenv, fetched >>

\* Lines 46 and 53-55: json.load(open(cfp, 'r')), then the converter.
load_read(p) ==
    /\ call[p].pc = "load_read"
    /\ LET c == call[p]
           r == json_load(fs[CachePath(c.dataset)])
       IN  call' = [call EXCEPT ![p] =
             IF r.ok
             THEN Finish([c EXCEPT !.passed = << r.val >>,
                                   !.result = << dict_to_hypergraph(r.val) >>], "ok")
             ELSE Finish(c, "JSONDecodeError")]
    /\ UNCHANGED << index, remote, fs, ncalls, nenv, fetched >>

\* Variant: the file is opened before the request is made.
download_xgi_data_open_first(p, dataset) ==
    /\ Free(p)
    /\ fs' = OpenW(fs, CachePath(dataset))
    /\ call' = [call EXCEPT ![p] =
                  [NewCall("download", dataset, FALSE) EXCEPT !.pc = "req_index"]]
    /\ ncalls' = [ncalls EXCEPT ![p] = @ + 1]
    /\ UNCHANGED << index, remote, nenv, fetched >>

\* ------------------------------------------------------- download_xgi_data
\* Line 72: the call starts with the request.
download_xgi_data(p, dataset) ==
    /\ Free(p)
    /\ call' = [call EXCEPT ![p] =
                  [NewCall("download", dataset, FALSE) EXCEPT !.pc = "req_index"]]
    /\ ncalls' = [ncalls EXCEPT ![p] = @ + 1]
    /\ UNCHANGED << index, remote, fs, nenv, fetched >>

\* Line 73: open(os.path.join(path, dataset+'.json'), 'w').
download_open(p) ==
    /\ call[p].pc = "dl_open"
    /\ LET cfp == CachePath(call[p].dataset)
       IN  /\ fs' = OpenW(fs, cfp)
           /\ call' = [call EXCEPT ![p].pc = "dl_write",
                                   ![p].old = IF Exists(fs, cfp) THEN << fs[cfp] >> ELSE << >>]
    /\ UNCHANGED << index, remote, ncalls, nenv, fetched >>

\* Line 74: json.dump writes through the file object's buffer; each time the
\* buffer fills, the next n tokens of the dump reach the file.
download_write(p, n) ==
    /\ call[p].pc = "dl_write"
    /\ LET c == call[p]
           toks == json_dump(c.data)
       IN  /\ n >= 1
           /\ c.off + n <= Len(toks)
           /\ fs' = FileWrite(fs, CachePath(c.dataset), c.off,
                              SubSeq(toks, c.off + 1, c.off + n))
           /\ call' = [call EXCEPT ![p].off = @ + n]
    /\ UNCHANGED << index, remote, ncalls, nenv, fetched >>

\* Variant: the file is never closed, what is left in the buffer is lost.
download_close_noflush(p) ==
    /\ call[p].pc = "dl_write"
    /\ call' = [call EXCEPT ![p] = Finish(call[p], "ok")]
    /\ fetched' = PutEntry(fetched, call[p].dataset, call[p].data)
    /\ UNCHANGED << index, remote, fs, ncalls, nenv >>

\* Line 75: close() flushes what is left of the dump.
download_close(p) ==
    /\ call[p].pc = "dl_write"
    /\ LET c == call[p]
           toks == json_dump(c.data)
       IN  /\ fs' = FileWrite(fs, CachePath(c.dataset), c.off,
                              SubSeq(toks, c.off + 1, Len(toks)))
           /\ call' = [call EXCEPT ![p] = Finish([c EXCEPT !.off = Len(toks)], "ok")]
           /\ fetched' = PutEntry(fetched, c.dataset, c.data)
    /\ UNCHANGED << index, remote, ncalls, nenv >>

\* -------------------------------------------------- _request_from_xgi_data
\* Variant: only the header line is printed.
ValidNamesHeaderOnly(idx) == {}

\* print(*index, sep="\n"): the names listed.
ValidNames(idx) == DOMAIN idx

\* Line 100: key = dataset.lower()
IndexKey(dataset) == Lower(dataset)

\* Lines 97-104: GET index.json, look the lowercased name up, fail if absent.
request_index(p) ==
    /\ call[p].pc = "req_index"
    /\ LET c == [call[p] EXCEPT !.gets = Append(@, "index"), !.idx = index,
                                !.looked = TRUE, !.key = IndexKey(call[p].dataset)]
       IN  call' = [call EXCEPT ![p] =
             IF c.key \notin DOMAIN c.idx
             THEN Finish([c EXCEPT !.printed = << ValidNames(c.idx) >>], "XGIError")
             ELSE [c EXCEPT !.pc = "req_data", !.url = c.idx[c.key]]]
    /\ UNCHANGED << index, remote, fs, ncalls, nenv, fetched >>

\* Variant: a load that fetched keeps a copy of what it fetched.
request_data_caching(p) ==
    /\ call[p].pc = "req_data"
    /\ LET c == [call[p] EXCEPT !.gets = Append(@, "data"),
                                !.data = remote[call[p].url]]
       IN  /\ call' = [call EXCEPT ![p] =
                 IF c.op = "load"
                 THEN Finish([c EXCEPT !.passed = << c.data >>,
                                       !.result = << dict_to_hypergraph(c.data) >>], "ok")
                 ELSE [c EXCEPT !.pc = "dl_open"]]
           /\ fs' = IF c.op = "load"
                    THEN PutEntry(fs, CachePath(c.dataset), json_dump(c.data))
                    ELSE fs
    /\ UNCHANGED << index, remote, ncalls, nenv, fetched >>

\* Lines 106-108: GET the dataset; then line 53 (load) or line 73 (download).
request_data(p) ==
    /\ call[p].pc = "req_data"
    /\ LET c == [call[p] EXCEPT !.gets = Append(@, "data"), !.data = remote[call[p].url]]
       IN  call' = [call EXCEPT ![p] =
             IF c.op = "load"
             THEN Finish([c EXCEPT !.passed = << c.data >>,
                                   !.result = << dict_to_hypergraph(c.data) >>], "ok")
             ELSE [c EXCEPT !.pc = "dl_open"]]
    /\ UNCHANGED << index, remote, fs, ncalls, nenv, fetched >>

\* Lines 98 and 106: requests.get(...).json() raises (no connection, no JSON).
request_fails(p) ==
    /\ call[p].pc \in {"req_index", "req_data"}
    /\ call' = [call EXCEPT ![p] =
         Finish([call[p] EXCEPT
                   !.gets = Append(@, IF call[p].pc = "req_index" THEN "index" ELSE "data")],
                "RequestException")]
    /\ UNCHANGED << index, remote, fs, ncalls, nenv, fetched >>

\* ------------------------------------------------------- the remote changes
index_changes ==
    /\ nenv < MaxEnv
    /\ \E k \in IndexKeys :
         \/ \E u \in Urls : index' = PutEntry(index, k, u) /\ index' # index
         \/ k \in DOMAIN index /\ index' = DropEntry(index, k)
    /\ nenv' = nenv + 1
    /\ UNCHANGED << remote, fs, call, ncalls, fetched >>

dataset_changes ==
    /\ nenv < MaxEnv
    /\ \E u \in Urls, d \in Data :
         /\ d # remote[u]
         /\ remote' = [remote EXCEPT ![u] = d]
    /\ nenv' = nenv + 1
    /\ UNCHANGED << index, fs, call, ncalls, fetched >>

\* ----------------------------------------------------------- specifications
\* The steps the callers in P can take.
CallerStep(P) ==
    \/ \E p \in P, d \in DatasetNames, r \in BOOLEAN : load_xgi_data(p, d, r)
    \/ \E p \in P : load_read(p)
    \/ \E p \in P, d \in DatasetNames : download_xgi_data(p, d)
    \/ \E p \in P : download_open(p)
    \/ \E p \in P, n \in 1..(2 * MaxLen + 1) : download_write(p, n)
    \/ \E p \in P : download_close(p)
    \/ \E p \in P : request_index(p)
    \/ \E p \in P : request_data(p)
    \/ \E p \in P : request_fails(p)

RemoteStep == index_changes \/ dataset_changes

\* One caller: the calls run one after the other (section 5 of the design).
Next == CallerStep(Callers) \/ RemoteStep

Spec == Init /\ [][Next]_vars

\* The steps of download_xgi_data the callers in P can take, each caller
\* making one call.
DownloadStep(P) ==
    \/ \E p \in P, d \in DatasetNames : call[p].pc = "idle" /\ download_xgi_data(p, d)
    \/ \E p \in P : request_index(p)
    \/ \E p \in P : request_data(p)
    \/ \E p \in P : request_fails(p)
    \/ \E p \in P : download_open(p)
    \/ \E p \in P, n \in 1..(2 * MaxLen + 1) : download_write(p, n)
    \/ \E p \in P : download_close(p)

\* Two callers downloading with no coordination between them.
NextConc == DownloadStep(ConcCallers) \/ RemoteStep

SpecConc == Init /\ [][NextConc]_vars

\* ------------------------------------------------------------------ claims
Done(p) == call[p].pc = "done"
LoadDone(p) == Done(p) /\ call[p].op = "load"
DownloadDone(p) == Done(p) /\ call[p].op = "download"
CachedLoad(p) == LoadDone(p) /\ call[p].read
Stored(p) == CachePath(call[p].dataset) \in DOMAIN fs

\* C1: a load with read=True that finds its file cfp makes no request at all
\* (neither the index GET nor a dataset GET), does not warn, and hands the
\* converter the parsed content of that file, whatever the remote holds.
C1_CacheHitNoNetwork ==
    \A p \in Callers :
        (CachedLoad(p) /\ Stored(p)) =>
            /\ call[p].gets = << >>
            /\ call[p].warns = 0
            /\ call[p].outcome = "ok"
            /\ call[p].passed = << json_load(fs[CachePath(call[p].dataset)]).val >>

\* The cached copy was read although the remote no longer serves that data
\* under the name.
C1_Witness ==
    /\ CachedLoad(1) /\ Stored(1) /\ call[1].outcome = "ok"
    /\ IndexKey(call[1].dataset) \in DOMAIN index
    /\ call[1].passed # << remote[index[IndexKey(call[1].dataset)]] >>

\* C2, as stated: every load with read=True that finds no file warns once and
\* makes one index GET followed by one dataset GET (granted that no request
\* fails in transport).
C2_AlwaysIndexThenDataset ==
    \A p \in Callers :
        (CachedLoad(p) /\ ~Stored(p) /\ call[p].outcome # "RequestException") =>
            /\ call[p].warns = 1
            /\ call[p].gets = << "index", "data" >>

\* C2, amended: every load with read=True that finds no file warns exactly
\* once and makes exactly one index GET; exactly one dataset GET follows when
\* the index arrived and holds the lowercased name, and none otherwise, the
\* call then failing.
C2_MissWarnsOnceAndFetches ==
    \A p \in Callers :
        (CachedLoad(p) /\ ~Stored(p)) =>
            LET c == call[p]
                known == c.looked /\ Lower(c.dataset) \in DOMAIN c.idx
            IN  /\ c.warns = 1
                /\ Len(c.gets) >= 1 /\ c.gets[1] = "index"
                /\ IF known THEN c.gets = << "index", "data" >>
                            ELSE c.gets = << "index" >> /\ c.outcome # "ok"
                /\ (c.outcome = "ok") => (known /\ c.passed = << c.data >>)

\* A miss that fetched, and a miss on a name the index does not hold.
C2_Witness ==
    /\ CachedLoad(1) /\ ~Stored(1)
    /\ call[1].outcome = "XGIError" /\ call[1].warns = 1
    /\ call[1].gets = << "index" >>

\* C3: after a completed download of a name, a load of that name with
\* read=True returns what the converter makes of the data the download
\* fetched.
C3_DownloadLoadRoundTrip ==
    \A p \in Callers :
        (CachedLoad(p) /\ call[p].dataset \in DOMAIN fetched) =>
            /\ call[p].outcome = "ok"
            /\ call[p].result = << dict_to_hypergraph(fetched[call[p].dataset]) >>

\* The round trip went through a file holding a non-empty list.
C3_Witness ==
    /\ CachedLoad(1) /\ call[1].dataset \in DOMAIN fetched
    /\ call[1].outcome = "ok" /\ call[1].hit
    /\ fetched[call[1].dataset] # << >>
    /\ call[1].result = << dict_to_hypergraph(fetched[call[1].dataset]) >>

\* str.upper() on one character, and on a name: the uppercase form a caller
\* passes instead of the name.
UpperChar(c) ==
    CASE c = "a" -> "A"
      [] c = "i" -> "I"
      [] c = "dotless_i" -> "I"
      [] OTHER -> c

Upper(s) == [k \in 1..Len(s) |-> UpperChar(s[k])]

AsciiChars == {"a", "A", "i", "I"}

IsAscii(s) == \A k \in 1..Len(s) : s[k] \in AsciiChars

\* Two calls that looked their names up in the same index, the second name
\* being the uppercase of the first, which the index holds.
UpperPair(p, q) ==
    /\ call[p].looked /\ call[q].looked
    /\ call[p].idx = call[q].idx
    /\ call[p].dataset \in DOMAIN call[p].idx
    /\ call[q].dataset = Upper(call[p].dataset)

SameResolution(p, q) ==
    /\ call[q].key = call[p].key
    /\ call[q].outcome # "XGIError" /\ call[p].outcome # "XGIError"
    /\ call[q].url = call[p].url
    /\ (nenv = 0 /\ Len(call[p].gets) = 2 /\ Len(call[q].gets) = 2
        /\ call[p].outcome # "RequestException"
        /\ call[q].outcome # "RequestException") => call[q].data = call[p].data

\* C4, as stated: for every name the index holds, the request for the name
\* and the request for its uppercase resolve to the same entry and yield the
\* same result.
C4_UpperSameEntry ==
    \A p, q \in ConcCallers : UpperPair(p, q) => SameResolution(p, q)

\* C4, amended: for every ASCII name the index holds, the request for the
\* name and the request for its uppercase resolve to the same entry, and
\* yield the same data while the remote is unchanged.
C4_AsciiUpperSameEntry ==
    \A p, q \in ConcCallers :
        (UpperPair(p, q) /\ IsAscii(call[p].dataset)) => SameResolution(p, q)

\* "ai" and "AI" were both requested and both got the dataset.
C4_Witness ==
    /\ UpperPair(1, 2) /\ IsAscii(call[1].dataset)
    /\ call[2].dataset # call[1].dataset
    /\ Len(call[1].gets) = 2 /\ Len(call[2].gets) = 2
    /\ DownloadDone(1) /\ DownloadDone(2)
    /\ call[1].outcome = "ok" /\ call[2].outcome = "ok"
    /\ call[1].data = call[2].data

\* C5: a request for a name whose lowercase the index does not hold fails
\* with XGIError, after listing exactly the keys of the index, and without a
\* dataset GET.
C5_UnknownNameFails ==
    \A p \in Callers :
        (call[p].looked /\ Lower(call[p].dataset) \notin DOMAIN call[p].idx) =>
            /\ Done(p)
            /\ call[p].outcome = "XGIError"
            /\ call[p].printed = << DOMAIN call[p].idx >>
            /\ call[p].gets = << "index" >>

\* An unknown name was refused with a non-empty list of names.
C5_Witness ==
    /\ Done(1) /\ call[1].outcome = "XGIError"
    /\ call[1].looked /\ Lower(call[1].dataset) \notin DOMAIN call[1].idx
    /\ call[1].printed = << DOMAIN call[1].idx >>
    /\ DOMAIN call[1].idx # {}

\* C6: a download changes no file before its request has returned a dataset,
\* so that one failing with XGIError leaves the directory as it was: no file
\* created, none truncated or modified.
C6_FailedDownloadLeavesFiles ==
    [][\A p \in Callers :
          (/\ call'[p].op = "download"
           /\ \/ call'[p].pc \in {"req_index", "req_data", "dl_open"}
              \/ call'[p].outcome = "XGIError")
          => fs' = fs]_vars

\* A download failed on a name whose copy, stored before, is still whole.
C6_Witness ==
    /\ DownloadDone(1) /\ call[1].outcome = "XGIError"
    /\ Stored(1)
    /\ call[1].dataset \in DOMAIN fetched
    /\ fs[CachePath(call[1].dataset)] = json_dump(fetched[call[1].dataset])

\* C7: after a completed download the file cfp exists and holds exactly the
\* dump of the dataset the call fetched, whatever the file held before.
C7_DownloadStoresFetched ==
    \A p \in Callers :
        (DownloadDone(p) /\ call[p].outcome = "ok") =>
            /\ Stored(p)
            /\ call[p].gets = << "index", "data" >>
            /\ fs[CachePath(call[p].dataset)] = json_dump(call[p].data)
            /\ json_load(fs[CachePath(call[p].dataset)]) = [ok |-> TRUE, val |-> call[p].data]

\* A longer file was there and was overwritten by a shorter dump.
C7_Witness ==
    /\ DownloadDone(1) /\ call[1].outcome = "ok"
    /\ call[1].old # << >>
    /\ Len(call[1].old[1]) > Len(json_dump(call[1].data))
    /\ fs[CachePath(call[1].dataset)] = json_dump(call[1].data)

\* C8: no step of a load changes the local directory, on any path (file
\* found, file missing and fetched, read=False, failure).
C8_LoadNeverWrites ==
    [][\A p \in Callers :
          (call'[p].op = "load" /\ call'[p] # call[p]) => fs' = fs]_vars

\* A load fetched for want of a file, and there is still no file.
C8_Witness ==
    /\ CachedLoad(1) /\ call[1].outcome = "ok"
    /\ call[1].gets = << "index", "data" >>
    /\ ~Stored(1)

\* Both callers have completed a download of the same name.
BothDownloaded ==
    /\ DownloadDone(1) /\ DownloadDone(2)
    /\ call[1].outcome = "ok" /\ call[2].outcome = "ok"
    /\ call[1].dataset = call[2].dataset

\* C9, as stated: once two uncoordinated downloads of one name have both
\* completed, the file holds exactly the dump of one of them.
C9_LastWriterWins ==
    BothDownloaded =>
        fs[CachePath(call[1].dataset)] \in
            { json_dump(call[1].data), json_dump(call[2].data) }

\* C9, amended: once two uncoordinated downloads of one name have both
\* completed, the file is not empty; it holds exactly the dump of the data
\* when both fetched the same data; otherwise every position of it holds the
\* token one of the two dumps has there, or a zero gap, and the whole may be
\* a mixture of the two.
C9_NoLossSameData ==
    BothDownloaded =>
        LET f == fs[CachePath(call[1].dataset)]
            d1 == json_dump(call[1].data)
            d2 == json_dump(call[2].data)
        IN  /\ f # << >>
            /\ Len(f) \in { Len(d1), Len(d2) }
            /\ (call[1].data = call[2].data) => f = d1
            /\ \A k \in 1..Len(f) :
                  \/ k <= Len(d1) /\ f[k] = d1[k]
                  \/ k <= Len(d2) /\ f[k] = d2[k]
                  \/ f[k] = "NUL"

\* The two downloads overlapped (the second opened the file before the first
\* closed it), fetched the same data, and the file holds it.
C9_Witness ==
    /\ BothDownloaded
    /\ call[1].data = call[2].data
    /\ call[1].old = << << >> >> \/ call[2].old = << << >> >>
    /\ fs[CachePath(call[1].dataset)] = json_dump(call[1].data)

\* C10: the file name is the dataset name as passed.  After a download
\* stored a copy under n1, a load with read=True of n2, a name differing from
\* n1 in letter case only and under which nothing was stored, does not find
\* that copy: it warns and goes to the remote.
C10_PathKeepsCase ==
    \A p \in Callers :
        (/\ CachedLoad(p)
         /\ call[p].dataset \notin DOMAIN fetched
         /\ \E n1 \in DOMAIN fetched :
               n1 # call[p].dataset /\ Lower(n1) = Lower(call[p].dataset))
        => /\ call[p].warns = 1
           /\ ~call[p].hit
           /\ Len(call[p].gets) >= 1 /\ call[p].gets[1] = "index"

\* "AI" was loaded from the remote although "ai.json" is there.
C10_Witness ==
    /\ CachedLoad(1) /\ call[1].outcome = "ok"
    /\ call[1].dataset \notin DOMAIN fetched
    /\ \E n1 \in DOMAIN fetched :
          /\ n1 # call[1].dataset /\ Lower(n1) = Lower(call[1].dataset)
          /\ CachePath(n1) \in DOMAIN fs
    /\ call[1].warns = 1
    /\ call[1].gets = << "index", "data" >>

====
